---- MODULE Spec2Model ----
(***************************************************************************)
(* pyvista/core/grid.py: the Grid base class and its two wrappers,         *)
(* RectilinearGrid (three stored coordinate arrays) and UniformGrid        *)
(* (dimensions, spacing, origin).  One grid object is followed through its *)
(* construction and the operations applied to it.  Coordinates are         *)
(* integers, so the arithmetic is exact.                                    *)
(***************************************************************************)
EXTENDS Integers, Sequences, FiniteSets

\* self:   the class of the grid under operation, "none" before construction
\* rg:     the rectilinear grid (the grid itself, or the one a cast returned)
\* ug:     the uniform grid
\* call:   the last operation and its argument
\* raised: the exception the last operation ended with, if any
\* pre:    self, rg, ug and call as they were when the last operation began
VARIABLES self, rg, ug, call, raised, pre

vars == <<self, rg, ug, call, raised, pre>>

(* ------------------------------ bounds --------------------------------- *)

\* Coordinate values are 0..MaxVal.
MaxVal == 1
\* Longest coordinate array, most rows of a points array, largest dimension.
MaxLen == 2

(* ------------------------------ values --------------------------------- *)

Vals == 0 .. MaxVal

SeqsUpTo(S, n) == UNION {[1 .. m -> S] : m \in 0 .. n}

\* 1-D numpy arrays handed to the constructors and the x, y, z setters.
Arrays == SeqsUpTo(Vals, MaxLen)

\* (n,3) numpy arrays handed to the points setters.
PointArrays == SeqsUpTo(Vals \X Vals \X Vals, MaxLen)

\* A Python value: a numpy array with its data, or something else (a list).
NdArray(a) == [isarray |-> TRUE, data |-> a]

NotAnArray == [isarray |-> FALSE, data |-> <<>>]

ArrayArgs == {NdArray(a) : a \in Arrays} \cup {NotAnArray}

PointArgs == {NdArray(p) : p \in PointArrays} \cup {NotAnArray}

DimVals == 0 .. MaxLen

DimArgs == DimVals \X DimVals \X DimVals

\* Spacings: negative, zero and positive.
SpacingVals == (0 - 1) .. MaxVal

SpacingArgs == SpacingVals \X SpacingVals \X SpacingVals

OriginVals == 0 .. MaxVal

OriginArgs == OriginVals \X OriginVals \X OriginVals

\* Tuples of the wrong length, as a caller may pass them to UniformGrid(...).
ShortDimArgs == DimVals \X DimVals

ShortSpacingArgs == SpacingVals \X SpacingVals

ShortOriginArgs == OriginVals \X OriginVals

Range(s) == {s[i] : i \in DOMAIN s}

StrictlyIncreasing(s) == \A i \in 1 .. Len(s) - 1 : s[i] < s[i + 1]

NoError == [type |-> "none", by |-> "none"]

ModuleError(t) == [type |-> t, by |-> "module"]

ExternalError(t) == [type |-> t, by |-> "external"]

(* ------------------------------ numpy ---------------------------------- *)

RECURSIVE sorted_insert(_, _)
sorted_insert(v, s) ==
    IF s = <<>> THEN <<v>>
    ELSE IF v <= Head(s) THEN <<v>> \o s
    ELSE <<Head(s)>> \o sorted_insert(v, Tail(s))

RECURSIVE np_sort(_)
np_sort(a) == IF a = <<>> THEN <<>> ELSE sorted_insert(Head(a), np_sort(Tail(a)))

RECURSIVE drop_repeats(_)
drop_repeats(s) ==
    IF Len(s) <= 1 THEN s
    ELSE IF s[1] = s[2] THEN drop_repeats(Tail(s))
    ELSE <<s[1]>> \o drop_repeats(Tail(s))

\* np.unique: the sorted distinct elements.
np_unique(a) == drop_repeats(np_sort(a))

\* points[:, c]
column(p, c) == [n \in 1 .. Len(p) |-> p[n][c]]

\* np.full(n, v); numpy raises ValueError for n < 0.
np_full_raises(n) == n < 0

np_full(n, v) == [i \in 1 .. n |-> v]

\* np.insert(a, 0, v)
np_insert0(a, v) == <<v>> \o a

RECURSIVE np_cumsum(_)
np_cumsum(a) ==
    IF a = <<>> THEN <<>>
    ELSE LET front == np_cumsum(SubSeq(a, 1, Len(a) - 1))
         IN  Append(front, (IF front = <<>> THEN 0 ELSE front[Len(front)]) + a[Len(a)])

np_add(a, c) == [i \in 1 .. Len(a) |-> a[i] + c]

np_diff(a) == [i \in 1 .. Len(a) - 1 |-> a[i + 1] - a[i]]

\* np.min raises ValueError on an empty array.
np_min(a) == CHOOSE m \in Range(a) : \A v \in Range(a) : m <= v

RECURSIVE flatten(_)
flatten(ss) == IF ss = <<>> THEN <<>> ELSE Head(ss) \o flatten(Tail(ss))

\* np.meshgrid(x, y, z, indexing='ij'): three arrays of shape (nx, ny, nz).
meshgrid_ij(x, y, z) ==
    [xx |-> [i \in 1 .. Len(x) |-> [j \in 1 .. Len(y) |-> [k \in 1 .. Len(z) |-> x[i]]]],
     yy |-> [i \in 1 .. Len(x) |-> [j \in 1 .. Len(y) |-> [k \in 1 .. Len(z) |-> y[j]]]],
     zz |-> [i \in 1 .. Len(x) |-> [j \in 1 .. Len(y) |-> [k \in 1 .. Len(z) |-> z[k]]]]]

ravel_C(a, nx, ny, nz) ==
    flatten([i \in 1 .. nx |-> flatten([j \in 1 .. ny |-> [k \in 1 .. nz |-> a[i][j][k]]])])

\* a.ravel(order='F') of an array of shape (nx, ny, nz): the first index runs fastest.
ravel_F(a, nx, ny, nz) ==
    flatten([k \in 1 .. nz |-> flatten([j \in 1 .. ny |-> [i \in 1 .. nx |-> a[i][j][k]]])])

\* np.c_[a, b, c]
np_c_(a, b, c) == [n \in 1 .. Len(a) |-> <<a[n], b[n], c[n]>>]

\* The rows np.c_[xx.ravel('F'), yy.ravel('F'), zz.ravel('F')] of meshgrid(x, y, z).
grid_points(x, y, z) ==
    LET m == meshgrid_ij(x, y, z)
        nx == Len(x)
        ny == Len(y)
        nz == Len(z)
    IN  np_c_(ravel_F(m.xx, nx, ny, nz), ravel_F(m.yy, nx, ny, nz), ravel_F(m.zz, nx, ny, nz))

\* numpy_to_vtk and vtk_to_numpy carry the values over unchanged.
numpy_to_vtk(a) == a

vtk_to_numpy(a) == a

(* --------------------------- attribute data ----------------------------- *)

\* A dict of attribute arrays is a set of <<name, array>> pairs.
EmptyDict == {}

OneArray == {<<"a", "data">>}

dict_update(d, e) == {p \in d : \A q \in e : q[1] # p[1]} \cup e

(* ------------------------------ the grids ------------------------------- *)

\* A vtkRectilinearGrid as its constructor leaves it.
NewRectilinearGrid ==
    [dims |-> <<0, 0, 0>>, X |-> <<>>, Y |-> <<>>, Z |-> <<>>,
     point_arrays |-> EmptyDict, cell_arrays |-> EmptyDict, field_arrays |-> EmptyDict,
     meta |-> "default", mtime |-> 0]

\* A vtkImageData as its constructor leaves it.
NewUniformGrid ==
    [dims |-> <<0, 0, 0>>, spacing |-> <<1, 1, 1>>, origin |-> <<0, 0, 0>>,
     point_arrays |-> EmptyDict, cell_arrays |-> EmptyDict, field_arrays |-> EmptyDict,
     meta |-> "default", mtime |-> 0]

Modified(g) == [g EXCEPT !.mtime = @ + 1]

\* The state an operation starts from.
Snapshot == [self |-> self, rg |-> rg, ug |-> ug, call |-> call]

(* --------------------------- RectilinearGrid ---------------------------- *)

Rect_from_arrays_raw(g, x, y, z) ==
    [g EXCEPT !.dims = <<Len(np_unique(x)), Len(np_unique(y)), Len(np_unique(z))>>,
              !.X = numpy_to_vtk(x),
              !.Y = numpy_to_vtk(y),
              !.Z = numpy_to_vtk(z)]

\* RectilinearGrid._from_arrays
Rect_from_arrays(g, x, y, z) ==
    LET ux == np_unique(x)
        uy == np_unique(y)
        uz == np_unique(z)
    IN  [g EXCEPT !.dims = <<Len(ux), Len(uy), Len(uz)>>,
                  !.X = numpy_to_vtk(ux),
                  !.Y = numpy_to_vtk(uy),
                  !.Z = numpy_to_vtk(uz)]

\* The x, y, z getters.
RectilinearGrid_x(g) == vtk_to_numpy(g.X)

RectilinearGrid_y(g) == vtk_to_numpy(g.Y)

RectilinearGrid_z(g) == vtk_to_numpy(g.Z)

RectilinearGrid_points_C(g) ==
    LET x == vtk_to_numpy(g.X)
        y == vtk_to_numpy(g.Y)
        z == vtk_to_numpy(g.Z)
        m == meshgrid_ij(x, y, z)
    IN  np_c_(ravel_C(m.xx, Len(x), Len(y), Len(z)),
              ravel_C(m.yy, Len(x), Len(y), Len(z)),
              ravel_C(m.zz, Len(x), Len(y), Len(z)))

\* The points getter.
RectilinearGrid_points(g) ==
    grid_points(vtk_to_numpy(g.X), vtk_to_numpy(g.Y), vtk_to_numpy(g.Z))

\* Grid.dimensions getter.
Grid_dimensions(g) == g.dims

\* Grid.__new__ with cls = Grid: the abstract class refuses to be instantiated.
GridNew ==
    /\ self = "none"
    /\ pre' = Snapshot
    /\ call' = [op |-> "Grid", args |-> <<>>]
    /\ raised' = ModuleError("TypeError")
    /\ UNCHANGED <<self, rg, ug>>

\* RectilinearGrid.__init__(*args) with two or three arguments: the grid it builds.
RectilinearGrid_init(args) ==
    IF \A n \in DOMAIN args : args[n].isarray
    THEN LET full == args \o [n \in 1 .. 3 - Len(args) |-> NdArray(<<0>>)]
         IN  Rect_from_arrays(NewRectilinearGrid, full[1].data, full[2].data, full[3].data)
    ELSE NewRectilinearGrid

\* RectilinearGrid(*args)
RectInit(args) ==
    /\ self = "none"
    /\ pre' = Snapshot
    /\ call' = [op |-> "RectilinearGrid", args |-> args]
    /\ self' = "RectilinearGrid"
    /\ raised' = NoError
    /\ rg' = RectilinearGrid_init(args)
    /\ UNCHANGED ug

RectSetPoints_unchecked(val) ==
    /\ self = "RectilinearGrid"
    /\ pre' = Snapshot
    /\ call' = [op |-> "RectilinearGrid.points", args |-> val]
    /\ raised' = NoError
    /\ rg' = Modified(Rect_from_arrays(rg,
                          np_unique(column(val.data, 1)),
                          np_unique(column(val.data, 2)),
                          np_unique(column(val.data, 3))))
    /\ UNCHANGED <<self, ug>>

\* RectilinearGrid.points setter.
RectSetPoints(val) ==
    /\ self = "RectilinearGrid"
    /\ pre' = Snapshot
    /\ call' = [op |-> "RectilinearGrid.points", args |-> val]
    /\ IF ~val.isarray
       THEN /\ raised' = ModuleError("TypeError")
            /\ UNCHANGED rg
       ELSE /\ raised' = NoError
            /\ rg' = Modified(Rect_from_arrays(rg,
                                  np_unique(column(val.data, 1)),
                                  np_unique(column(val.data, 2)),
                                  np_unique(column(val.data, 3))))
    /\ UNCHANGED <<self, ug>>

\* RectilinearGrid.x setter.
RectSetX(coords) ==
    /\ self = "RectilinearGrid"
    /\ pre' = Snapshot
    /\ call' = [op |-> "RectilinearGrid.x", args |-> coords]
    /\ raised' = NoError
    /\ rg' = Modified([rg EXCEPT !.X = numpy_to_vtk(coords)])
    /\ UNCHANGED <<self, ug>>

\* RectilinearGrid.y setter.
RectSetY(coords) ==
    /\ self = "RectilinearGrid"
    /\ pre' = Snapshot
    /\ call' = [op |-> "RectilinearGrid.y", args |-> coords]
    /\ raised' = NoError
    /\ rg' = Modified([rg EXCEPT !.Y = numpy_to_vtk(coords)])
    /\ UNCHANGED <<self, ug>>

\* RectilinearGrid.z setter.
RectSetZ(coords) ==
    /\ self = "RectilinearGrid"
    /\ pre' = Snapshot
    /\ call' = [op |-> "RectilinearGrid.z", args |-> coords]
    /\ raised' = NoError
    /\ rg' = Modified([rg EXCEPT !.Z = numpy_to_vtk(coords)])
    /\ UNCHANGED <<self, ug>>

\* Grid.dimensions setter on a RectilinearGrid.
RectSetDimensions(dims) ==
    /\ self = "RectilinearGrid"
    /\ pre' = Snapshot
    /\ call' = [op |-> "RectilinearGrid.dimensions", args |-> dims]
    /\ raised' = NoError
    /\ rg' = Modified([rg EXCEPT !.dims = <<dims[1], dims[2], dims[3]>>])
    /\ UNCHANGED <<self, ug>>

(* ----------------------------- UniformGrid ------------------------------ *)

\* UniformGrid._from_specs
Uniform_from_specs(g, dims, spacing, origin) ==
    [g EXCEPT !.dims = <<dims[1], dims[2], dims[3]>>,
              !.origin = <<origin[1], origin[2], origin[3]>>,
              !.spacing = <<spacing[1], spacing[2], spacing[3]>>]

DefaultSpacing == <<1, 1, 1>>

DefaultOrigin == <<0, 0, 0>>

\* UniformGrid.__init__(*args) with two or three arguments: the grid it builds.
UniformGrid_init(args) ==
    LET arg0_is_valid == Len(args[1]) = 3
        arg1_is_valid == Len(args[2]) = 3
        arg2_is_valid == Len(args) > 2 /\ Len(args[3]) = 3
    IN  IF arg0_is_valid /\ arg1_is_valid /\ arg2_is_valid
        THEN Uniform_from_specs(NewUniformGrid, args[1], args[2], args[3])
        ELSE IF arg0_is_valid /\ arg1_is_valid
        THEN Uniform_from_specs(NewUniformGrid, args[1], args[2], DefaultOrigin)
        ELSE NewUniformGrid

\* UniformGrid(*args) with one to three tuples.
UniformInit(args) ==
    /\ self = "none"
    /\ pre' = Snapshot
    /\ call' = [op |-> "UniformGrid", args |-> args]
    /\ IF Len(args) = 1
       THEN IF Len(args[1]) < 3
            THEN \* dims[2] of a short tuple: Python's IndexError, no grid is built
                 /\ raised' = ExternalError("IndexError")
                 /\ UNCHANGED <<self, ug>>
            ELSE /\ raised' = NoError
                 /\ self' = "UniformGrid"
                 /\ ug' = Uniform_from_specs(NewUniformGrid, args[1],
                                             DefaultSpacing, DefaultOrigin)
       ELSE /\ raised' = NoError
            /\ self' = "UniformGrid"
            /\ ug' = UniformGrid_init(args)
    /\ UNCHANGED rg

UniformGrid_spacing(g) == g.spacing

UniformGrid_origin(g) == g.origin

\* The points getter raises numpy's ValueError when np.full gets a negative count.
UniformGrid_points_raises(g) ==
    \E i \in 1 .. 3 : np_full_raises(Grid_dimensions(g)[i] - 1)

\* x = np.insert(np.cumsum(np.full(nx, dx)), 0, 0.0) + ox
axis_points(n, d, o) == np_add(np_insert0(np_cumsum(np_full(n, d)), 0), o)

\* The points getter.
UniformGrid_points(g) ==
    LET dims == Grid_dimensions(g)
        sp == UniformGrid_spacing(g)
        org == UniformGrid_origin(g)
    IN  grid_points(axis_points(dims[1] - 1, sp[1], org[1]),
                    axis_points(dims[2] - 1, sp[2], org[2]),
                    axis_points(dims[3] - 1, sp[3], org[3]))

\* A value the VTK setter can take as one float: an array of exactly one element.
is_scalar(a) == Len(a) = 1

\* UniformGrid.points setter.
UniformSetPoints(val) ==
    /\ self = "UniformGrid"
    /\ pre' = Snapshot
    /\ call' = [op |-> "UniformGrid.points", args |-> val]
    /\ IF ~val.isarray
       THEN /\ raised' = ModuleError("TypeError")
            /\ UNCHANGED ug
       ELSE LET x == np_unique(column(val.data, 1))
                y == np_unique(column(val.data, 2))
                z == np_unique(column(val.data, 3))
                dx == np_unique(np_diff(x))
                dy == np_unique(np_diff(y))
                dz == np_unique(np_diff(z))
            IN  IF x = <<>>
                THEN \* np.min of an empty array
                     /\ raised' = ExternalError("ValueError")
                     /\ UNCHANGED ug
                ELSE IF ~(is_scalar(dx) /\ is_scalar(dy) /\ is_scalar(dz))
                THEN \* SetDimensions and SetOrigin are done, SetSpacing refuses
                     /\ raised' = ExternalError("TypeError")
                     /\ ug' = [ug EXCEPT !.dims = <<Len(x), Len(y), Len(z)>>,
                                         !.origin = <<np_min(x), np_min(y), np_min(z)>>]
                ELSE /\ raised' = NoError
                     /\ ug' = Modified(Uniform_from_specs(ug,
                                  <<Len(x), Len(y), Len(z)>>,
                                  <<dx[1], dy[1], dz[1]>>,
                                  <<np_min(x), np_min(y), np_min(z)>>))
    /\ UNCHANGED <<self, rg>>

\* Grid.dimensions setter on a UniformGrid.
UniformSetDimensions(dims) ==
    /\ self = "UniformGrid"
    /\ pre' = Snapshot
    /\ call' = [op |-> "UniformGrid.dimensions", args |-> dims]
    /\ raised' = NoError
    /\ ug' = Modified([ug EXCEPT !.dims = <<dims[1], dims[2], dims[3]>>])
    /\ UNCHANGED <<self, rg>>

\* UniformGrid.origin setter.
UniformSetOrigin(origin) ==
    /\ self = "UniformGrid"
    /\ pre' = Snapshot
    /\ call' = [op |-> "UniformGrid.origin", args |-> origin]
    /\ raised' = NoError
    /\ ug' = Modified([ug EXCEPT !.origin = <<origin[1], origin[2], origin[3]>>])
    /\ UNCHANGED <<self, rg>>

\* UniformGrid.spacing setter.
UniformSetSpacing(spacing) ==
    /\ self = "UniformGrid"
    /\ pre' = Snapshot
    /\ call' = [op |-> "UniformGrid.spacing", args |-> spacing]
    /\ raised' = NoError
    /\ ug' = Modified([ug EXCEPT !.spacing = <<spacing[1], spacing[2], spacing[3]>>])
    /\ UNCHANGED <<self, rg>>

gen_coords_no_origin(g, i) ==
    np_cumsum(np_insert0(np_full(Grid_dimensions(g)[i] - 1, UniformGrid_spacing(g)[i]), 0))

\* gen_coords(i) of cast_to_rectilinear_grid
gen_coords(g, i) ==
    np_add(np_cumsum(np_insert0(np_full(Grid_dimensions(g)[i] - 1,
                                        UniformGrid_spacing(g)[i]), 0)),
           UniformGrid_origin(g)[i])

\* DataSet.copy_meta_from
copy_meta_from(target, source) == [target EXCEPT !.meta = source.meta]

cast_drops_cell_arrays(g) ==
    LET grid == RectilinearGrid_init(<<NdArray(gen_coords(g, 1)),
                                       NdArray(gen_coords(g, 2)),
                                       NdArray(gen_coords(g, 3))>>)
    IN  copy_meta_from(
            [grid EXCEPT !.point_arrays = dict_update(@, g.point_arrays),
                         !.field_arrays = dict_update(@, g.field_arrays)], g)

\* UniformGrid.cast_to_rectilinear_grid: the grid it returns.
cast_to_rectilinear_grid(g) ==
    LET grid == RectilinearGrid_init(<<NdArray(gen_coords(g, 1)),
                                       NdArray(gen_coords(g, 2)),
                                       NdArray(gen_coords(g, 3))>>)
    IN  copy_meta_from(
            [grid EXCEPT !.point_arrays = dict_update(@, g.point_arrays),
                         !.cell_arrays = dict_update(@, g.cell_arrays),
                         !.field_arrays = dict_update(@, g.field_arrays)], g)

\* The cast raises numpy's ValueError when np.full gets a negative count.
cast_raises(g) == \E i \in 1 .. 3 : np_full_raises(Grid_dimensions(g)[i] - 1)

\* UniformGrid.cast_to_rectilinear_grid; rg holds the grid returned.
UniformCast ==
    /\ self = "UniformGrid"
    /\ pre' = Snapshot
    /\ call' = [op |-> "UniformGrid.cast_to_rectilinear_grid", args |-> <<>>]
    /\ IF cast_raises(ug)
       THEN /\ raised' = ExternalError("ValueError")
            /\ UNCHANGED rg
       ELSE /\ raised' = NoError
            /\ rg' = cast_to_rectilinear_grid(ug)
    /\ UNCHANGED <<self, ug>>

(* --------------------------- specification ------------------------------ *)

\* No grid yet: the next step is a constructor call.
InitNew ==
    /\ self = "none"
    /\ rg = NewRectilinearGrid
    /\ ug = NewUniformGrid
    /\ call = [op |-> "new", args |-> <<>>]
    /\ raised = NoError
    /\ pre = Snapshot

SeedArrays == {<<0>>, <<0, 1>>}

\* A rectilinear grid built earlier from coordinate arrays.
InitRect ==
    /\ self = "RectilinearGrid"
    /\ \E x \in SeedArrays, y \in SeedArrays, z \in SeedArrays :
           rg = RectilinearGrid_init(<<NdArray(x), NdArray(y), NdArray(z)>>)
    /\ ug = NewUniformGrid
    /\ call = [op |-> "built", args |-> <<>>]
    /\ raised = NoError
    /\ pre = Snapshot

SeedDims == {1, 2} \X {1, 2} \X {1, 2}

\* A uniform grid built earlier by UniformGrid(dims), with or without attribute
\* arrays and metadata attached to it.
InitUniform ==
    /\ self = "UniformGrid"
    /\ rg = NewRectilinearGrid
    /\ \E d \in SeedDims, attached \in BOOLEAN :
           LET g == Uniform_from_specs(NewUniformGrid, d, DefaultSpacing, DefaultOrigin)
           IN  ug = IF attached
                    THEN [g EXCEPT !.point_arrays = OneArray, !.cell_arrays = OneArray,
                                   !.field_arrays = OneArray, !.meta = "user"]
                    ELSE g
    /\ call = [op |-> "built", args |-> <<>>]
    /\ raised = NoError
    /\ pre = Snapshot

Init == InitNew \/ InitRect \/ InitUniform

\* No constructor has been called yet.
Start == call.op = "new"

\* The grid was built earlier and nothing has been applied to it yet.
Built == call.op = "built"

\* The grid was built earlier or the constructor has just run.
JustBuilt == call.op \in {"built", "RectilinearGrid", "UniformGrid"}

\* The last operation was the cast of a grid built earlier.
JustCast == call.op = "UniformGrid.cast_to_rectilinear_grid" /\ pre.call.op = "built"

UniformCtorArgs ==
    {<<d>> : d \in DimArgs \cup ShortDimArgs}
      \cup {<<d, s>> : d \in DimArgs \cup ShortDimArgs, s \in SpacingArgs \cup ShortSpacingArgs}
      \cup ((DimArgs \cup ShortDimArgs) \X (SpacingArgs \cup ShortSpacingArgs)
              \X (OriginArgs \cup ShortOriginArgs))

RectCtorArgs == (ArrayArgs \X ArrayArgs) \cup (ArrayArgs \X ArrayArgs \X ArrayArgs)

\* The grid's own points, as read by the points getter.
OwnPoints == IF UniformGrid_points_raises(ug) THEN {} ELSE {NdArray(UniformGrid_points(ug))}

\* A behaviour follows one grid: a constructor call and then one operation that
\* takes no coordinate input, or a grid built earlier and one operation on it,
\* and after a cast one more setter on the source grid.
Next ==
    \/ Start /\ GridNew
    \/ Start /\ \E args \in RectCtorArgs : RectInit(args)
    \/ Start /\ \E args \in UniformCtorArgs : UniformInit(args)
    \/ Built /\ \E val \in PointArgs : RectSetPoints(val)
    \/ Built /\ \E c \in Arrays : RectSetX(c)
    \/ Built /\ \E c \in Arrays : RectSetY(c)
    \/ Built /\ \E c \in Arrays : RectSetZ(c)
    \/ Built /\ \E d \in DimArgs : RectSetDimensions(d)
    \/ Built /\ \E val \in PointArgs : UniformSetPoints(val)
    \/ JustBuilt /\ self = "UniformGrid" /\ \E val \in OwnPoints \cup {NotAnArray} : UniformSetPoints(val)
    \/ JustBuilt /\ UniformCast
    \/ (Built \/ JustCast) /\ \E d \in DimArgs : UniformSetDimensions(d)
    \/ (Built \/ JustCast) /\ \E s \in SpacingArgs : UniformSetSpacing(s)
    \/ (Built \/ JustCast) /\ \E o \in OriginArgs : UniformSetOrigin(o)

Spec == Init /\ [][Next]_vars

(* ------------------------------- claims --------------------------------- *)

Axis(g, n) == <<RectilinearGrid_x(g), RectilinearGrid_y(g), RectilinearGrid_z(g)>>[n]

\* The elements of S in increasing order.
Ascending(S) == CHOOSE s \in [1 .. Cardinality(S) -> S] : StrictlyIncreasing(s)

IsCast == call.op = "UniformGrid.cast_to_rectilinear_grid"

\* C1: after RectilinearGrid(x, y, z) on three arrays, .x, .y and .z hold exactly
\* the distinct values of the matching input in strictly increasing order, and
\* .dimensions holds the three counts of distinct values.
C1_ConstructorRoundTrip ==
    (/\ call.op = "RectilinearGrid"
     /\ Len(call.args) = 3
     /\ \A n \in 1 .. 3 : call.args[n].isarray)
    => \A n \in 1 .. 3 :
           /\ StrictlyIncreasing(Axis(rg, n))
           /\ Range(Axis(rg, n)) = Range(call.args[n].data)
           /\ Grid_dimensions(rg)[n] = Cardinality(Range(call.args[n].data))

C1_Witness ==
    /\ call.op = "RectilinearGrid"
    /\ call.args = <<NdArray(<<1, 0>>), NdArray(<<1, 1>>), NdArray(<<0>>)>>
    /\ RectilinearGrid_x(rg) = <<0, 1>>
    /\ RectilinearGrid_y(rg) = <<1>>
    /\ Grid_dimensions(rg) = <<2, 1, 1>>

\* C2: after an (n,3) array P is assigned to RectilinearGrid.points, .points is
\* the full Cartesian product of the distinct sorted values of P's columns, with
\* x running fastest, then y, then z; it depends on P through the three sets of
\* column values only.
C2_PointsAreCartesianProduct ==
    (call.op = "RectilinearGrid.points" /\ call.args.isarray)
    => LET P == call.args.data
           ux == Ascending(Range(column(P, 1)))
           uy == Ascending(Range(column(P, 2)))
           uz == Ascending(Range(column(P, 3)))
           nx == Len(ux)
           ny == Len(uy)
           nz == Len(uz)
           pts == RectilinearGrid_points(rg)
       IN  /\ Len(pts) = nx * ny * nz
           /\ \A i \in 0 .. nx - 1, j \in 0 .. ny - 1, k \in 0 .. nz - 1 :
                  pts[i + nx * (j + ny * k) + 1] = <<ux[i + 1], uy[j + 1], uz[k + 1]>>

C2_Witness ==
    /\ call.op = "RectilinearGrid.points"
    /\ call.args = NdArray(<<<<1, 0, 1>>, <<0, 1, 1>>>>)
    /\ RectilinearGrid_points(rg) = <<<<0, 0, 1>>, <<1, 0, 1>>, <<0, 1, 1>>, <<1, 1, 1>>>>

CastCoordinates(n) == {ug.origin[n] + k * ug.spacing[n] : k \in 0 .. ug.dims[n] - 1}

CastKeepsAxes ==
    /\ raised = NoError
    /\ \A n \in 1 .. 3 :
           /\ Len(Axis(rg, n)) = ug.dims[n]
           /\ Range(Axis(rg, n)) = CastCoordinates(n)
    /\ Grid_dimensions(rg) = Grid_dimensions(ug)

\* C3 as stated: for every uniform grid with dimensions >= 1 and any origin and
\* spacing, the cast returns a grid whose axis i holds exactly the dims[i]
\* coordinates origin[i] + k*spacing[i] and whose dimensions are the source's.
C3_CastAnySpacing ==
    (IsCast /\ \A n \in 1 .. 3 : ug.dims[n] >= 1) => CastKeepsAxes

\* C3 amended: the same, for grids whose spacing is nonzero on every axis that
\* has more than one node; the coordinates are stored in increasing order.
C3_CastNonzeroSpacing ==
    (/\ IsCast
     /\ \A n \in 1 .. 3 : ug.dims[n] >= 1 /\ (ug.dims[n] = 1 \/ ug.spacing[n] # 0))
    => (CastKeepsAxes /\ \A n \in 1 .. 3 : StrictlyIncreasing(Axis(rg, n)))

C3_Witness ==
    /\ IsCast
    /\ ug.dims = <<2, 2, 2>>
    /\ ug.spacing = <<1, 1, 1>>
    /\ ug.origin = <<0, 0, 0>>
    /\ \A n \in 1 .. 3 : Axis(rg, n) = <<0, 1>>

\* C4: each stored axis coordinate array of a rectilinear grid is strictly
\* increasing after any of construction, the points setter and the x, y, z setters.
C4_AxesStrictlyIncreasing ==
    self = "RectilinearGrid" => \A n \in 1 .. 3 : StrictlyIncreasing(Axis(rg, n))

\* C5: dimensions[i] of a rectilinear grid is the length of the stored array of
\* axis i, so the node count is the number of rows of .points.
C5_DimensionsMatchAxes ==
    self = "RectilinearGrid"
    => /\ \A n \in 1 .. 3 : Grid_dimensions(rg)[n] = Len(Axis(rg, n))
       /\ Grid_dimensions(rg)[1] * Grid_dimensions(rg)[2] * Grid_dimensions(rg)[3]
              = Len(RectilinearGrid_points(rg))

RejectedPoints ==
    /\ call.op \in {"RectilinearGrid.points", "UniformGrid.points"}
    /\ ~call.args.isarray

\* C6 as stated: an error of the module's own is raised by a points setter given
\* a value that is no numpy array, and by nothing else.
C6_OnlyPointsSettersRaise == raised.by = "module" => RejectedPoints

\* C6 amended: the module raises a TypeError of its own in two places, the points
\* setters given a value that is no numpy array, and Grid.__new__ when the
\* abstract class Grid itself is instantiated; both leave every grid as it was,
\* and no other operation raises an error of the module's own.
C6_ModuleErrors ==
    /\ raised.by = "module"
       => /\ raised.type = "TypeError"
          /\ RejectedPoints \/ call.op = "Grid"
          /\ self = pre.self /\ rg = pre.rg /\ ug = pre.ug
    /\ RejectedPoints => raised = ModuleError("TypeError")
    /\ call.op = "Grid" => raised = ModuleError("TypeError") /\ self = "none"

C6_Witness ==
    /\ call.op = "RectilinearGrid.points"
    /\ call.args = NotAnArray
    /\ raised = ModuleError("TypeError")
    /\ rg = pre.rg

\* C7: for a uniform grid with non-negative dimensions, .points has
\* dims[0]*dims[1]*dims[2] rows and row i + dims[0]*(j + dims[1]*k) is
\* origin + (i, j, k)*spacing.
C7_UniformPoints ==
    self = "UniformGrid"
    => /\ ~UniformGrid_points_raises(ug)
       /\ LET pts == UniformGrid_points(ug)
              d == ug.dims
          IN  /\ Len(pts) = d[1] * d[2] * d[3]
              /\ \A i \in 0 .. d[1] - 1, j \in 0 .. d[2] - 1, k \in 0 .. d[3] - 1 :
                     pts[i + d[1] * (j + d[2] * k) + 1]
                         = <<ug.origin[1] + i * ug.spacing[1],
                             ug.origin[2] + j * ug.spacing[2],
                             ug.origin[3] + k * ug.spacing[3]>>

\* C8: UniformGrid(dims), UniformGrid(dims, spacing) and UniformGrid(dims,
\* spacing, origin) give a grid with the supplied values, spacing (1,1,1) and
\* origin (0,0,0) when omitted; an argument is applied or rejected, never dropped.
C8_ConstructorAppliesOrRejects ==
    call.op = "UniformGrid"
    => \/ raised # NoError
       \/ /\ Grid_dimensions(ug) = call.args[1]
          /\ UniformGrid_spacing(ug)
                 = (IF Len(call.args) >= 2 THEN call.args[2] ELSE DefaultSpacing)
          /\ UniformGrid_origin(ug)
                 = (IF Len(call.args) >= 3 THEN call.args[3] ELSE DefaultOrigin)

\* C9: assigning a uniform grid's own .points back to .points, for dimensions
\* >= 1 and positive spacing, leaves dimensions, spacing and origin unchanged.
C9_OwnPointsRoundTrip ==
    (/\ call.op = "UniformGrid.points"
     /\ call.args.isarray
     /\ \A n \in 1 .. 3 : pre.ug.dims[n] >= 1 /\ pre.ug.spacing[n] > 0
     /\ call.args.data = UniformGrid_points(pre.ug))
    => /\ raised = NoError
       /\ Grid_dimensions(ug) = Grid_dimensions(pre.ug)
       /\ UniformGrid_spacing(ug) = UniformGrid_spacing(pre.ug)
       /\ UniformGrid_origin(ug) = UniformGrid_origin(pre.ug)

SourceSetters == {"UniformGrid.dimensions", "UniformGrid.origin", "UniformGrid.spacing"}

====
